---- MODULE Spec2Model ----
(***************************************************************************)
(* Market engine of the gamma prediction market.                           *)
(*                                                                         *)
(*   programs/gamma/src/state/market.rs        Market and its methods      *)
(*   programs/gamma/src/instructions/buy.rs    the buy instruction         *)
(*   programs/gamma/src/instructions/sell.rs   the sell instruction        *)
(*                                                                         *)
(* Integer widths are scaled down so that every value fits the checker's   *)
(* integers: a u64 holds 0..U64Max, the 18-decimal fixed point uses        *)
(* D18 = D9 * D9 with D9 = 10, and the invariant is stored in InvBytes     *)
(* big-endian bytes.  The scaling keeps the relations the code relies on:  *)
(* D18 * D18 * U64Max * U64Max <= U256Max (no Decimal product of two u64   *)
(* values overflows) and D9 * sqrt(2 * U64Max) <= U64Max (the tokens       *)
(* minted for one deposit fit in a u64).                                   *)
(*                                                                         *)
(* common::utils::Decimal and common::constants are not part of the        *)
(* sources at hand; they are modelled from the way market.rs uses and      *)
(* documents them (raw checked 256-bit arithmetic on D18 values).          *)
(***************************************************************************)
EXTENDS Integers, Sequences, FiniteSets, TLC

\* ------------------------------------------------------------------------
\* Widths and program constants
\* ------------------------------------------------------------------------

\* u64::MAX, scaled
U64Max == 255

\* U256::MAX, scaled: wider than every Decimal intermediate and than every
\* product of MAX_OUTCOMES - 1 reserves, narrower than U64Max^MAX_OUTCOMES
U256Max == 2147483647

\* number of bytes of the stored invariant, scaled from 32
InvBytes == 4

\* common::constants::MAX_OUTCOMES
MAX_OUTCOMES == 4

\* common::constants::D9_U128, scaled from 10^9
D9 == 10

\* Decimal::ONE_E18 (raw value), scaled from 10^18
D18 == D9 * D9

\* common::constants::FEE_BPS
FEE_BPS == 100

\* the values the build constant common::constants::MAX_WITHDRAW_BPS may have
MaxWithdrawBpsChoices == {5000, 10000}

\* ------------------------------------------------------------------------
\* Bounds of the exploration
\* ------------------------------------------------------------------------

\* number of instructions in one run
MaxOps == 3

\* last value of the clock
MaxNow == 1

Slots == 0 .. (MAX_OUTCOMES - 1)

\* outcome indices a caller of buy and sell passes (the last is out of range
\* for every market they trade on)
Indices == {0, 1, 2}

\* outcome indices a dispatcher calls sell_outcome with
Outcomes == {0, 1}

AmountsIn == {0, 1, 60, 200}

BurnAmounts == {0, 1, 5, 14}

Scales == {3}

ResolveAts == {1}

\* the outcome counts of the markets that are traded on
NumOutcomesChoices == {0, 1, 2}

\* the outcome counts and the reserves of the records the methods of Market
\* are called on
RecordOutcomeCounts == {0, 1, 2, MAX_OUTCOMES}

ReserveValues == {0, 200, U64Max}

\* ------------------------------------------------------------------------
\* U256 and its big-endian codec (spl_math::uint::U256)
\* ------------------------------------------------------------------------

\* None of a checked operation
NONE == -1

RECURSIVE Pow(_, _)
Pow(b, e) == IF e = 0 THEN 1 ELSE b * Pow(b, e - 1)

\* a codec that writes the least significant byte first
WriteAsLittleEndian(v) ==
    [i \in 1 .. InvBytes |-> (v \div Pow(256, i - 1)) % 256]

\* U256::write_as_big_endian: most significant byte first
WriteAsBigEndian(v) ==
    [i \in 1 .. InvBytes |-> (v \div Pow(256, InvBytes - i)) % 256]

RECURSIVE FromBigEndianUpTo(_, _)
FromBigEndianUpTo(buf, k) ==
    IF k = 0 THEN 0 ELSE FromBigEndianUpTo(buf, k - 1) * 256 + buf[k]

\* U256::from_big_endian
FromBigEndian(buf) == FromBigEndianUpTo(buf, InvBytes)

\* U256::checked_mul
CheckedMul(a, b) ==
    IF a = NONE \/ b = NONE THEN NONE
    ELSE IF b # 0 /\ a > U256Max \div b THEN NONE
    ELSE a * b

\* U256::checked_div
CheckedDiv(a, b) ==
    IF a = NONE \/ b = NONE \/ b = 0 THEN NONE ELSE a \div b

\* U256::checked_add
CheckedAdd(a, b) ==
    IF a = NONE \/ b = NONE THEN NONE
    ELSE IF a > U256Max - b THEN NONE
    ELSE a + b

\* U256::checked_sub
CheckedSub(a, b) ==
    IF a = NONE \/ b = NONE THEN NONE
    ELSE IF b > a THEN NONE
    ELSE a - b

\* u64::checked_add
CheckedAddU64(a, b) == IF a + b > U64Max THEN NONE ELSE a + b

\* u64::checked_sub
CheckedSubU64(a, b) == IF b > a THEN NONE ELSE a - b

\* ------------------------------------------------------------------------
\* common::utils::Decimal: a U256 holding a D18 value
\* ------------------------------------------------------------------------

RECURSIVE SqrtBetween(_, _, _)
SqrtBetween(n, lo, hi) ==
    IF lo >= hi THEN lo
    ELSE LET mid == (lo + hi + 1) \div 2
         IN  IF mid * mid <= n THEN SqrtBetween(n, mid, hi)
             ELSE SqrtBetween(n, lo, mid - 1)

\* floor of the square root
ISqrt(n) == SqrtBetween(n, 0, 46340)

\* Decimal::from_plain: plain units -> D18
FromPlain(x) == CheckedMul(x, D18)

\* Decimal::from_token_amount: token units (D9) -> D18
FromTokenAmount(x) == CheckedMul(x, D9)

\* Decimal::ONE_E9
ONE_E9 == D9

\* Decimal::ONE_E18
ONE_E18 == D18

\* Decimal::mul: the raw product (D18 * D18 = D36)
DecMul(a, b) == CheckedMul(a, b)

\* Decimal::div: the raw quotient (D36 / D18 = D18)
DecDiv(a, b) == CheckedDiv(a, b)

\* Decimal::add
DecAdd(a, b) == CheckedAdd(a, b)

\* Decimal::sub
DecSub(a, b) == CheckedSub(a, b)

\* Decimal::nth_root(2): D18 -> D18, the floor of the fixed-point square root
NthRoot2(a) ==
    LET wide == CheckedMul(a, D18)
    IN  IF wide = NONE THEN NONE ELSE ISqrt(wide)

\* Decimal::to_token_amount(Rounding::Floor): D18 -> token units (D9), a u64
ToTokenAmountFloor(a) ==
    IF a = NONE THEN NONE
    ELSE IF a \div D9 > U64Max THEN NONE
    ELSE a \div D9

\* ------------------------------------------------------------------------
\* Market (state/market.rs)
\* ------------------------------------------------------------------------

\* results of the fallible methods
Ok(ret, m) == [ok |-> TRUE, err |-> "", ret |-> ret, market |-> m]

Err(e, m) == [ok |-> FALSE, err |-> e, ret |-> 0, market |-> m]

\* Market::invariant_u256
invariant_u256(m) == FromBigEndian(m.invariant)

\* Market::set_invariant_u256
set_invariant_u256(m, v) == [m EXCEPT !.invariant = WriteAsBigEndian(v)]

\* the loop of recompute_invariant: the checked product of reserves[0..k)
RECURSIVE ProductUpTo(_, _)
ProductUpTo(reserves, k) ==
    IF k = 0 THEN 1
    ELSE CheckedMul(ProductUpTo(reserves, k - 1), reserves[k - 1])

\* recompute_invariant with a loop that stops one reserve short
recompute_invariant_short_loop(m) ==
    LET n == m.num_outcomes
        prod == IF n = 0 THEN 1 ELSE ProductUpTo(m.reserves, n - 1)
    IN  IF n > MAX_OUTCOMES THEN Err("InvalidOutcomeIndex", m)
        ELSE IF prod = NONE THEN Err("MathOverflow", m)
        ELSE Ok(prod, set_invariant_u256(m, prod))

\* recompute_invariant that stores the product times scale^N, the invariant the
\* documentation of the field describes
recompute_invariant_scaled(m) ==
    LET n == m.num_outcomes
        prod == CheckedMul(ProductUpTo(m.reserves, n), Pow(m.scale, n))
    IN  IF n > MAX_OUTCOMES THEN Err("InvalidOutcomeIndex", m)
        ELSE IF prod = NONE THEN Err("MathOverflow", m)
        ELSE Ok(prod, set_invariant_u256(m, prod))

\* U256 addition and multiplication that wrap around (mod U256Max + 1)
WrappingAdd(x, y) ==
    IF x > U256Max - y THEN (x - (U256Max - y)) - 1 ELSE x + y

\* a U256 times a u64, the high and the low part of the U256 apart
WrappingMul(a, b) ==
    LET low == (U256Max \div (U64Max + 1)) + 1
    IN  WrappingAdd((((a \div low) * b) % (U64Max + 1)) * low, (a % low) * b)

RECURSIVE WrappingProductUpTo(_, _)
WrappingProductUpTo(reserves, k) ==
    IF k = 0 THEN 1
    ELSE WrappingMul(WrappingProductUpTo(reserves, k - 1), reserves[k - 1])

\* recompute_invariant with unchecked multiplications
recompute_invariant_wrapping(m) ==
    LET n == m.num_outcomes
        prod == WrappingProductUpTo(m.reserves, n)
    IN  IF n > MAX_OUTCOMES THEN Err("InvalidOutcomeIndex", m)
        ELSE Ok(prod, set_invariant_u256(m, prod))

\* Market::recompute_invariant
recompute_invariant(m) ==
    LET n == m.num_outcomes
        prod == ProductUpTo(m.reserves, n)
    IN  IF n > MAX_OUTCOMES THEN Err("InvalidOutcomeIndex", m)
        ELSE IF prod = NONE THEN Err("MathOverflow", m)
        ELSE Ok(prod, set_invariant_u256(m, prod))

\* the loop of product_except: the checked product of reserves[0..k) without
\* reserves[idx]
RECURSIVE ProductExceptUpTo(_, _, _)
ProductExceptUpTo(reserves, k, idx) ==
    IF k = 0 THEN 1
    ELSE IF k - 1 = idx THEN ProductExceptUpTo(reserves, k - 1, idx)
    ELSE CheckedMul(ProductExceptUpTo(reserves, k - 1, idx), reserves[k - 1])

\* Market::product_except
product_except(m, idx) ==
    LET n == m.num_outcomes
        prod == ProductExceptUpTo(m.reserves, n, idx)
    IN  IF ~(n <= MAX_OUTCOMES) THEN Err("InvalidOutcomeIndex", m)
        ELSE IF ~(idx < n) THEN Err("InvalidOutcomeIndex", m)
        ELSE IF prod = NONE THEN Err("MathOverflow", m)
        ELSE Ok(prod, m)

\* Market::required_reserve_for
required_reserve_for(m, idx) ==
    LET n == m.num_outcomes
        inv == invariant_u256(m)
        denom == product_except(m, idx)
    IN  IF ~(n <= MAX_OUTCOMES) THEN Err("InvalidOutcomeIndex", m)
        ELSE IF ~(idx < n) THEN Err("InvalidOutcomeIndex", m)
        ELSE IF ~denom.ok THEN denom
        ELSE IF denom.ret = 0 THEN Ok(0, m)
        ELSE Ok(CheckedDiv(inv, denom.ret), m)

\* required_delta that returns the distance between the required reserve and
\* the current one in either direction
required_delta_absolute(m, idx) ==
    LET n == m.num_outcomes
        cur == m.reserves[idx]
        req == required_reserve_for(m, idx)
        delta == IF req.ret <= cur THEN cur - req.ret ELSE req.ret - cur
    IN  IF ~(n <= MAX_OUTCOMES) THEN Err("InvalidOutcomeIndex", m)
        ELSE IF ~(idx < n) THEN Err("InvalidOutcomeIndex", m)
        ELSE IF ~req.ok THEN req
        ELSE IF delta > U64Max THEN Ok(U64Max, m)
        ELSE Ok(delta, m)

\* Market::required_delta
required_delta(m, idx) ==
    LET n == m.num_outcomes
        cur == m.reserves[idx]
        req == required_reserve_for(m, idx)
        delta == req.ret - cur
    IN  IF ~(n <= MAX_OUTCOMES) THEN Err("InvalidOutcomeIndex", m)
        ELSE IF ~(idx < n) THEN Err("InvalidOutcomeIndex", m)
        ELSE IF ~req.ok THEN req
        ELSE IF req.ret <= cur THEN Ok(0, m)
        ELSE IF delta > U64Max THEN Ok(U64Max, m)
        ELSE Ok(delta, m)

\* the minted amount of buy_outcome (market.rs 180-206), NONE when a step fails
MintedFor(s0_u64, amount_in) ==
    LET s0_dec == FromPlain(s0_u64)
        a_d9 == FromTokenAmount(amount_in)
        a_d18 == DecMul(a_d9, ONE_E9)
        s0_sq == DecDiv(DecMul(s0_dec, s0_dec), ONE_E18)
        two_d18 == FromPlain(2)
        two_a_d18 == DecDiv(DecMul(a_d18, two_d18), ONE_E18)
        rhs == DecAdd(s0_sq, two_a_d18)
        s_new == NthRoot2(rhs)
        delta == DecSub(s_new, s0_dec)
    IN  ToTokenAmountFloor(delta)

\* buy_outcome that seeds the reserves of the other active outcomes with scale
\* on the first trade
buy_outcome_seeds_reserves(m, outcome_index, amount_in) ==
    LET fresh == \A k \in Slots : m.reserves[k] = 0
        seeded == [k \in Slots |->
                      IF fresh /\ k < m.num_outcomes /\ k # outcome_index
                      THEN m.scale ELSE m.reserves[k]]
        r1 == CheckedAddU64(m.reserves[outcome_index], amount_in)
        m1 == [m EXCEPT !.reserves = [seeded EXCEPT ![outcome_index] = r1]]
        amount_out == MintedFor(m.supplies[outcome_index], amount_in)
        s1 == CheckedAddU64(m.supplies[outcome_index], amount_out)
        m2 == [m1 EXCEPT !.supplies[outcome_index] = s1]
        rec == recompute_invariant(m2)
    IN  IF r1 = NONE THEN Err("MathOverflow", m)
        ELSE IF amount_out = NONE THEN Err("MathOverflow", m1)
        ELSE IF s1 = NONE THEN Err("MathOverflow", m1)
        ELSE IF ~rec.ok THEN Err(rec.err, m2)
        ELSE Ok(amount_out, rec.market)

\* buy_outcome whose reserve addition wraps around instead of failing
buy_outcome_wrapping(m, outcome_index, amount_in) ==
    LET r1 == (m.reserves[outcome_index] + amount_in) % (U64Max + 1)
        m1 == [m EXCEPT !.reserves[outcome_index] = r1]
        amount_out == MintedFor(m.supplies[outcome_index], amount_in)
        s1 == CheckedAddU64(m.supplies[outcome_index], amount_out)
        m2 == [m1 EXCEPT !.supplies[outcome_index] = s1]
        rec == recompute_invariant(m2)
    IN  IF amount_out = NONE THEN Err("MathOverflow", m1)
        ELSE IF s1 = NONE THEN Err("MathOverflow", m1)
        ELSE IF ~rec.ok THEN Err(rec.err, m2)
        ELSE Ok(amount_out, rec.market)

\* Market::buy_outcome; on an error the record is returned as the method
\* leaves it (the method writes in place)
buy_outcome(m, outcome_index, amount_in) ==
    LET r1 == CheckedAddU64(m.reserves[outcome_index], amount_in)
        m1 == [m EXCEPT !.reserves[outcome_index] = r1]
        amount_out == MintedFor(m.supplies[outcome_index], amount_in)
        s1 == CheckedAddU64(m.supplies[outcome_index], amount_out)
        m2 == [m1 EXCEPT !.supplies[outcome_index] = s1]
        rec == recompute_invariant(m2)
    IN  IF r1 = NONE THEN Err("MathOverflow", m)
        ELSE IF amount_out = NONE THEN Err("MathOverflow", m1)
        ELSE IF s1 = NONE THEN Err("MathOverflow", m1)
        ELSE IF ~rec.ok THEN Err(rec.err, m2)
        ELSE Ok(amount_out, rec.market)

\* the gross refund of a sell (market.rs 241-261, sell.rs 110-130), NONE when
\* a step fails
RefundFor(supply_before, burn_amount) ==
    LET s0_dec == FromPlain(supply_before)
        delta_dec == FromPlain(burn_amount)
        s1_dec == DecSub(s0_dec, delta_dec)
        s0_sq == DecDiv(DecMul(s0_dec, s0_dec), ONE_E18)
        half == DecDiv(FromPlain(1), FromPlain(2))
        c_s0 == DecDiv(DecMul(s0_sq, half), ONE_E18)
        s1_sq == DecDiv(DecMul(s1_dec, s1_dec), ONE_E18)
        c_s1 == DecDiv(DecMul(s1_sq, half), ONE_E18)
        refund_dec == DecSub(c_s0, c_s1)
    IN  ToTokenAmountFloor(refund_dec)

\* a fee that takes what the rate leaves instead of what the rate asks
FeeAt_complement(refund_u64, fee_bps) == (refund_u64 * (10000 - fee_bps)) \div 10000

\* the fee of a sell at a rate in basis points: refund * rate / 10_000 in u128
FeeAt(refund_u64, fee_bps) == (refund_u64 * fee_bps) \div 10000

\* the fee of a sell: refund * FEE_BPS / 10_000
FeeFor(refund_u64) == FeeAt(refund_u64, FEE_BPS)

\* the settlement with a zero-refund branch that returns without touching the
\* supply
sell_outcome_settle_zero_noop(m, outcome_index, burn_amount, vault_lamports, refund_u64) ==
    LET s1 == CheckedSubU64(m.supplies[outcome_index], burn_amount)
        fee_u64 == FeeFor(refund_u64)
        net_payout_u64 == CheckedSubU64(refund_u64, fee_u64)
        fees1 == CheckedAddU64(m.undistributed_fees, fee_u64)
        mf == [m EXCEPT !.undistributed_fees = fees1]
        r1 == CheckedSubU64(m.reserves[outcome_index], refund_u64)
        mr == [mf EXCEPT !.reserves[outcome_index] = r1]
        ms == [mr EXCEPT !.supplies[outcome_index] = s1]
        rec == recompute_invariant(ms)
    IN  IF refund_u64 = 0 THEN Ok(0, m)
        ELSE IF vault_lamports < refund_u64 THEN Err("InsufficientVaultFunds", m)
        ELSE IF net_payout_u64 = NONE THEN Err("MathOverflow", m)
        ELSE IF fees1 = NONE THEN Err("MathOverflow", m)
        ELSE IF r1 = NONE THEN Err("MathOverflow", mf)
        ELSE IF s1 = NONE THEN Err("MathOverflow", mr)
        ELSE IF ~rec.ok THEN Err(rec.err, ms)
        ELSE Ok(net_payout_u64, rec.market)

\* the settlement that also refuses a custody balance equal to the refund
sell_outcome_settle_strict_custody(m, outcome_index, burn_amount, vault_lamports, refund_u64) ==
    LET s1 == CheckedSubU64(m.supplies[outcome_index], burn_amount)
        fee_u64 == FeeFor(refund_u64)
        net_payout_u64 == CheckedSubU64(refund_u64, fee_u64)
        fees1 == CheckedAddU64(m.undistributed_fees, fee_u64)
        mf == [m EXCEPT !.undistributed_fees = fees1]
        r1 == CheckedSubU64(m.reserves[outcome_index], refund_u64)
        mr == [mf EXCEPT !.reserves[outcome_index] = r1]
        ms == [mr EXCEPT !.supplies[outcome_index] = s1]
        rec == recompute_invariant(ms)
        m0 == [m EXCEPT !.supplies[outcome_index] = s1]
        rec0 == recompute_invariant(m0)
    IN  IF refund_u64 = 0
        THEN IF s1 = NONE THEN Err("MathOverflow", m)
             ELSE IF ~rec0.ok THEN Err("MathOverflow", m0)
             ELSE Ok(0, rec0.market)
        ELSE IF vault_lamports <= refund_u64 THEN Err("InsufficientVaultFunds", m)
        ELSE IF net_payout_u64 = NONE THEN Err("MathOverflow", m)
        ELSE IF fees1 = NONE THEN Err("MathOverflow", m)
        ELSE IF r1 = NONE THEN Err("MathOverflow", mf)
        ELSE IF s1 = NONE THEN Err("MathOverflow", mr)
        ELSE IF ~rec.ok THEN Err(rec.err, ms)
        ELSE Ok(net_payout_u64, rec.market)

\* Market::sell_outcome from the computed refund on (market.rs 263-304)
sell_outcome_settle(m, outcome_index, burn_amount, vault_lamports, refund_u64) ==
    LET s1 == CheckedSubU64(m.supplies[outcome_index], burn_amount)
        fee_u64 == FeeFor(refund_u64)
        net_payout_u64 == CheckedSubU64(refund_u64, fee_u64)
        fees1 == CheckedAddU64(m.undistributed_fees, fee_u64)
        mf == [m EXCEPT !.undistributed_fees = fees1]
        r1 == CheckedSubU64(m.reserves[outcome_index], refund_u64)
        mr == [mf EXCEPT !.reserves[outcome_index] = r1]
        ms == [mr EXCEPT !.supplies[outcome_index] = s1]
        rec == recompute_invariant(ms)
        m0 == [m EXCEPT !.supplies[outcome_index] = s1]
        rec0 == recompute_invariant(m0)
    IN  IF refund_u64 = 0
        THEN IF s1 = NONE THEN Err("MathOverflow", m)
             ELSE IF ~rec0.ok THEN Err("MathOverflow", m0)
             ELSE Ok(0, rec0.market)
        ELSE IF vault_lamports < refund_u64 THEN Err("InsufficientVaultFunds", m)
        ELSE IF net_payout_u64 = NONE THEN Err("MathOverflow", m)
        ELSE IF fees1 = NONE THEN Err("MathOverflow", m)
        ELSE IF r1 = NONE THEN Err("MathOverflow", mf)
        ELSE IF s1 = NONE THEN Err("MathOverflow", mr)
        ELSE IF ~rec.ok THEN Err(rec.err, ms)
        ELSE Ok(net_payout_u64, rec.market)

\* sell_outcome that clears the supply before it compares the burn with it
sell_outcome_writes_first(m, outcome_index, burn_amount, vault_lamports) ==
    LET supply_before == m.supplies[outcome_index]
        refund_u64 == RefundFor(supply_before, burn_amount)
        cleared == [m EXCEPT !.supplies[outcome_index] = 0]
    IN  IF burn_amount > supply_before THEN Err("BurnIsMoreThanSupply", cleared)
        ELSE IF refund_u64 = NONE THEN Err("MathOverflow", m)
        ELSE sell_outcome_settle(m, outcome_index, burn_amount,
                                 vault_lamports, refund_u64)

\* sell_outcome without the comparison of the burn with the supply
sell_outcome_unchecked_burn(m, outcome_index, burn_amount, vault_lamports) ==
    LET supply_before == m.supplies[outcome_index]
        refund_u64 == RefundFor(supply_before, burn_amount)
    IN  IF refund_u64 = NONE THEN Err("MathOverflow", m)
        ELSE sell_outcome_settle(m, outcome_index, burn_amount,
                                 vault_lamports, refund_u64)

\* sell_outcome that refunds the whole reserve of the outcome
sell_outcome_refunds_reserve(m, outcome_index, burn_amount, vault_lamports) ==
    LET supply_before == m.supplies[outcome_index]
        refund_u64 == m.reserves[outcome_index]
    IN  IF burn_amount > supply_before THEN Err("BurnIsMoreThanSupply", m)
        ELSE sell_outcome_settle(m, outcome_index, burn_amount,
                                 vault_lamports, refund_u64)

\* Market::sell_outcome
sell_outcome(m, outcome_index, burn_amount, vault_lamports) ==
    LET supply_before == m.supplies[outcome_index]
        refund_u64 == RefundFor(supply_before, burn_amount)
    IN  IF burn_amount > supply_before THEN Err("BurnIsMoreThanSupply", m)
        ELSE IF refund_u64 = NONE THEN Err("MathOverflow", m)
        ELSE sell_outcome_settle(m, outcome_index, burn_amount,
                                 vault_lamports, refund_u64)

\* the sum of reserves[0..k) in u128 (it cannot overflow: k u64 values)
RECURSIVE TotalUpTo(_, _)
TotalUpTo(reserves, k) ==
    IF k = 0 THEN 0 ELSE TotalUpTo(reserves, k - 1) + reserves[k - 1]

\* Market::outcome_price: reserves[outcome_index] / sum of the active reserves,
\* scaled by D9
outcome_price(m, outcome_index) ==
    LET n == m.num_outcomes
        total == TotalUpTo(m.reserves, n)
        price == (m.reserves[outcome_index] * D9) \div total
    IN  IF ~(n <= MAX_OUTCOMES) THEN Err("InvalidOutcomeIndex", m)
        ELSE IF ~(outcome_index < n) THEN Err("InvalidOutcomeIndex", m)
        ELSE IF total = 0 THEN Ok(0, m)
        ELSE IF price > U64Max THEN Ok(U64Max, m)
        ELSE Ok(price, m)

\* liquidity_percentages that rounds every share up
liquidity_percentages_round_up(m) ==
    LET n == m.num_outcomes
        total == TotalUpTo(m.reserves, n)
        share(i) == (m.reserves[i] * D9 + total - 1) \div total
    IN  IF ~(n <= MAX_OUTCOMES) THEN Err("InvalidOutcomeIndex", m)
        ELSE IF total = 0 THEN Ok([i \in Slots |-> 0], m)
        ELSE Ok([i \in Slots |->
                    IF i < n
                    THEN IF share(i) > U64Max THEN U64Max ELSE share(i)
                    ELSE 0], m)

\* Market::liquidity_percentages: the share of every active reserve in the
\* total of the active reserves, scaled by D9
liquidity_percentages(m) ==
    LET n == m.num_outcomes
        total == TotalUpTo(m.reserves, n)
        share(i) == (m.reserves[i] * D9) \div total
    IN  IF ~(n <= MAX_OUTCOMES) THEN Err("InvalidOutcomeIndex", m)
        ELSE IF total = 0 THEN Ok([i \in Slots |-> 0], m)
        ELSE Ok([i \in Slots |->
                    IF i < n
                    THEN IF share(i) > U64Max THEN U64Max ELSE share(i)
                    ELSE 0], m)

\* ------------------------------------------------------------------------
\* Instructions (instructions/buy.rs, instructions/sell.rs)
\* ------------------------------------------------------------------------

\* buy that still trades at the deadline itself
buy_deadline_inclusive(m, clock, outcome_index, amount_in) ==
    IF ~(clock <= m.resolve_at) THEN Err("MarketExpired", m)
    ELSE IF ~(amount_in > 0) THEN Err("DepositIsZero", m)
    ELSE IF ~(m.num_outcomes > 0) THEN Err("OutcomeBelowZero", m)
    ELSE IF ~(outcome_index < m.num_outcomes) THEN Err("InvalidOutcomeIndex", m)
    ELSE buy_outcome(m, outcome_index, amount_in)

\* buy that compares the index with the capacity of the arrays
buy_index_against_capacity(m, clock, outcome_index, amount_in) ==
    IF ~(clock < m.resolve_at) THEN Err("MarketExpired", m)
    ELSE IF ~(amount_in > 0) THEN Err("DepositIsZero", m)
    ELSE IF ~(m.num_outcomes > 0) THEN Err("OutcomeBelowZero", m)
    ELSE IF ~(outcome_index < MAX_OUTCOMES) THEN Err("InvalidOutcomeIndex", m)
    ELSE buy_outcome(m, outcome_index, amount_in)

\* instructions::buy up to the mint CPI
buy(m, clock, outcome_index, amount_in) ==
    IF ~(clock < m.resolve_at) THEN Err("MarketExpired", m)
    ELSE IF ~(amount_in > 0) THEN Err("DepositIsZero", m)
    ELSE IF ~(m.num_outcomes > 0) THEN Err("OutcomeBelowZero", m)
    ELSE IF ~(outcome_index < m.num_outcomes) THEN Err("InvalidOutcomeIndex", m)
    ELSE buy_outcome(m, outcome_index, amount_in)

\* instructions::sell from the computed refund on (sell.rs 132-171); the fee
\* is left in the vault, the market record does not count it
sell_settle(m, idx, burn_amount, vault_lamports, refund_u64) ==
    LET s1 == CheckedSubU64(m.supplies[idx], burn_amount)
        m0 == [m EXCEPT !.supplies[idx] = s1]
        rec0 == recompute_invariant(m0)
        fee_u64 == FeeFor(refund_u64)
        net_payout_u64 == CheckedSubU64(refund_u64, fee_u64)
        r1 == CheckedSubU64(m.reserves[idx], refund_u64)
        mr == [m EXCEPT !.reserves[idx] = r1]
        ms == [mr EXCEPT !.supplies[idx] = s1]
        rec == recompute_invariant(ms)
    IN  IF refund_u64 = 0
        THEN IF s1 = NONE THEN Err("MathOverflow", m)
             ELSE IF ~rec0.ok THEN Err("MathOverflow", m0)
             ELSE Ok(0, rec0.market)
        ELSE IF net_payout_u64 = NONE THEN Err("MathOverflow", m)
        ELSE IF vault_lamports < refund_u64 THEN Err("InsufficientVaultFunds", m)
        ELSE IF r1 = NONE THEN Err("MathOverflow", m)
        ELSE IF s1 = NONE THEN Err("MathOverflow", mr)
        ELSE IF ~rec.ok THEN Err("MathOverflow", ms)
        ELSE IF vault_lamports < net_payout_u64 THEN Err("VaultTransferFailed", rec.market)
        ELSE Ok(net_payout_u64, rec.market)

\* the validation of instructions::sell (sell.rs 61-85): the error it returns,
\* "" when the call passes; user_has_tokens is the comparison of the user's
\* token account with burn_amount, withdraw_bps the constant MAX_WITHDRAW_BPS
sell_checks(m, idx, burn_amount, user_has_tokens, withdraw_bps) ==
    LET n == m.num_outcomes
        supply_before == m.supplies[idx]
        max_burn_allowed == (supply_before * withdraw_bps) \div 10000
    IN  IF ~(burn_amount > 0) THEN "BurnIsZero"
        ELSE IF ~(n > 0) THEN "OutcomeBelowZero"
        ELSE IF ~(idx < n) THEN "InvalidOutcomeIndex"
        ELSE IF ~user_has_tokens THEN "InsufficientFunds"
        ELSE IF ~(burn_amount <= supply_before) THEN "BurnIsMoreThanSupply"
        ELSE IF burn_amount > max_burn_allowed THEN "BurnIsMoreThanSupply"
        ELSE ""

\* instructions::sell
sell(m, idx, burn_amount, user_has_tokens, vault_lamports, withdraw_bps) ==
    LET e == sell_checks(m, idx, burn_amount, user_has_tokens, withdraw_bps)
        refund_u64 == RefundFor(m.supplies[idx], burn_amount)
    IN  IF e # "" THEN Err(e, m)
        ELSE IF refund_u64 = NONE THEN Err("MathOverflow", m)
        ELSE sell_settle(m, idx, burn_amount, vault_lamports, refund_u64)

\* instructions::init_market as gamma::init_market calls it
init_market(num_outcomes, scale, resolve_at) ==
    LET zero == [reserves |-> [i \in Slots |-> 0],
                 supplies |-> [i \in Slots |-> 0],
                 invariant |-> WriteAsBigEndian(0),
                 scale |-> scale,
                 resolve_at |-> resolve_at,
                 undistributed_fees |-> 0,
                 num_outcomes |-> num_outcomes]
    IN  IF ~(num_outcomes <= MAX_OUTCOMES) THEN Err("TooManyOutcomes", zero)
        ELSE Ok(0, set_invariant_u256(zero, ProductUpTo(zero.reserves, num_outcomes)))

\* ------------------------------------------------------------------------
\* The state machine
\* ------------------------------------------------------------------------

VARIABLES
    market,            \* the Market account
    now,               \* Clock::unix_timestamp
    vault,             \* lamports of market_vault above its rent
    MAX_WITHDRAW_BPS,  \* the constant of the build
    last,              \* the last call: arguments, result, state before it,
                       \* the gross refund it computed (NONE when it did not)
    ops                \* number of calls made

vars == <<market, now, vault, MAX_WITHDRAW_BPS, last, ops>>

\* what a sell keeps of the call before it, when that call was a successful
\* buy on the same outcome and the sell burns exactly what the buy minted: the
\* outcome, the deposit and the minted amount of the buy
NoBuy == [buy |-> FALSE, idx |-> 0, amount |-> 0, ret |-> 0]

PrevOf(l, op, idx, amount) ==
    IF op # "buy" /\ l.op = "buy" /\ l.ok /\ l.idx = idx /\ l.ret = amount
    THEN [buy |-> TRUE, idx |-> l.idx, amount |-> l.amount, ret |-> l.ret]
    ELSE NoBuy

Call(op, idx, amount, custody, funds, res, refund) ==
    [op |-> op, idx |-> idx, amount |-> amount, custody |-> custody,
     funds |-> funds, ok |-> res.ok, err |-> res.err, ret |-> res.ret,
     refund |-> refund, left |-> res.market,
     pre |-> market, pre_vault |-> vault, at |-> now, prev |-> PrevOf(last, op, idx, amount)]

Init ==
    /\ \E n \in NumOutcomesChoices, sc \in Scales, ra \in ResolveAts :
          LET res == init_market(n, sc, ra)
          IN  /\ res.ok
              /\ market = res.market
              /\ last = [op |-> "init_market", idx |-> 0, amount |-> 0,
                         custody |-> 0, funds |-> TRUE, ok |-> TRUE,
                         err |-> "", ret |-> 0, refund |-> 0,
                         left |-> res.market, pre |-> res.market,
                         pre_vault |-> 0, at |-> 0, prev |-> NoBuy]
    /\ now = 0
    /\ vault = 0
    /\ MAX_WITHDRAW_BPS \in MaxWithdrawBpsChoices
    /\ ops = 0

\* the clock advances between the calls of a run
Tick ==
    /\ now < MaxNow
    /\ ops < MaxOps
    /\ now' = now + 1
    /\ UNCHANGED <<market, vault, MAX_WITHDRAW_BPS, last, ops>>

\* the buy instruction: the deposit is transferred to the vault, the tokens are
\* minted; a failed instruction aborts the transaction and writes nothing
Buy ==
    /\ ops < MaxOps
    /\ \E idx \in Indices, amount_in \in AmountsIn :
          LET res == buy(market, now, idx, amount_in)
          IN  /\ last' = Call("buy", idx, amount_in, vault, TRUE, res, 0)
              /\ market' = IF res.ok THEN res.market ELSE market
              /\ vault' = IF res.ok THEN vault + amount_in ELSE vault
    /\ ops' = ops + 1
    /\ UNCHANGED <<now, MAX_WITHDRAW_BPS>>

\* the sell instruction of sell.rs: it reads the vault's lamports itself and
\* transfers the net payout; a failed instruction writes nothing
Sell ==
    /\ ops < MaxOps
    /\ \E idx \in Indices, burn_amount \in BurnAmounts, funds \in BOOLEAN :
          LET res == sell(market, idx, burn_amount, funds, vault, MAX_WITHDRAW_BPS)
              refund == IF sell_checks(market, idx, burn_amount, funds,
                                       MAX_WITHDRAW_BPS) = ""
                        THEN RefundFor(market.supplies[idx], burn_amount) ELSE NONE
          IN  /\ last' = Call("sell", idx, burn_amount, vault, funds, res, refund)
              /\ market' = IF res.ok THEN res.market ELSE market
              /\ vault' = IF res.ok THEN vault - res.ret ELSE vault
    /\ ops' = ops + 1
    /\ UNCHANGED <<now, MAX_WITHDRAW_BPS>>

\* Market::sell_outcome called by a dispatcher with a valid outcome index, a
\* positive burn amount and the custody balance; the record stays as the
\* method leaves it, and the dispatcher pays the returned amount out
SellOutcome ==
    /\ ops < MaxOps
    /\ \E idx \in Outcomes, burn_amount \in BurnAmounts \ {0}, custody \in {0, vault} :
          /\ idx < market.num_outcomes
          /\ LET res == sell_outcome(market, idx, burn_amount, custody)
                 refund == RefundFor(market.supplies[idx], burn_amount)
             IN  /\ last' = Call("sell_outcome", idx, burn_amount, custody, TRUE,
                                 res, refund)
                 /\ market' = res.market
                 /\ vault' = IF res.ok THEN vault - res.ret ELSE vault
    /\ ops' = ops + 1
    /\ UNCHANGED <<now, MAX_WITHDRAW_BPS>>

Next == Tick \/ Buy \/ Sell \/ SellOutcome

Spec == Init /\ [][Next]_vars

\* ------------------------------------------------------------------------
\* The settlement of a sell as a function of the gross refund
\*
\* The gross refund is the output of the Decimal pipeline (RefundFor); the
\* steps after it (market.rs 263-304, sell.rs 132-193) are applied here to
\* every refund of Refunds, on the markets that buys and settlements reach.
\* ------------------------------------------------------------------------

Refunds == {0, 1, 100}

\* Market::sell_outcome past its burn check, settling a given gross refund
SettleOutcome ==
    /\ ops < MaxOps
    /\ \E idx \in Outcomes, burn_amount \in BurnAmounts \ {0}, custody \in {0, vault},
          refund \in Refunds :
          /\ idx < market.num_outcomes
          /\ burn_amount <= market.supplies[idx]
          /\ LET res == sell_outcome_settle(market, idx, burn_amount, custody, refund)
             IN  /\ last' = Call("sell_outcome", idx, burn_amount, custody, TRUE,
                                 res, refund)
                 /\ market' = res.market
                 /\ vault' = IF res.ok THEN vault - res.ret ELSE vault
    /\ ops' = ops + 1
    /\ UNCHANGED <<now, MAX_WITHDRAW_BPS>>

\* instructions::sell past its validation, settling a given gross refund
SettleSell ==
    /\ ops < MaxOps
    /\ \E idx \in Outcomes, burn_amount \in BurnAmounts, refund \in Refunds :
          /\ sell_checks(market, idx, burn_amount, TRUE, MAX_WITHDRAW_BPS) = ""
          /\ LET res == sell_settle(market, idx, burn_amount, vault, refund)
             IN  /\ last' = Call("sell", idx, burn_amount, vault, TRUE, res, refund)
                 /\ market' = IF res.ok THEN res.market ELSE market
                 /\ vault' = IF res.ok THEN vault - res.ret ELSE vault
    /\ ops' = ops + 1
    /\ UNCHANGED <<now, MAX_WITHDRAW_BPS>>

NextSettle == Tick \/ Buy \/ SettleOutcome \/ SettleSell

SpecSettle == Init /\ [][NextSettle]_vars

\* ------------------------------------------------------------------------
\* The methods of Market that read the record or write the invariant alone
\*
\* They are functions of the record, and are applied to records whose outcome
\* count and reserves are drawn from RecordOutcomeCounts and ReserveValues.
\* ------------------------------------------------------------------------

\* the values passed to set_invariant_u256
InvariantValues == {0, 258, 16777216, U256Max}

\* outcome indices passed to required_delta
RecordIndices == 0 .. MAX_OUTCOMES

\* a record as buy_outcome holds it after adding to a reserve and calling
\* recompute_invariant: the invariant is the product of the reserves when
\* that fits, and the one stored before when it does not
InitRecord ==
    /\ \E n \in RecordOutcomeCounts, sc \in Scales, ra \in ResolveAts,
          r \in [Slots -> ReserveValues] :
          /\ \A k \in Slots : k >= n => r[k] = 0
          /\ LET m0 == init_market(n, sc, ra).market
                 res == recompute_invariant([m0 EXCEPT !.reserves = r])
             IN  /\ market = res.market
                 /\ last = [op |-> "init_market", idx |-> 0, amount |-> 0,
                            custody |-> 0, funds |-> TRUE, ok |-> TRUE,
                            err |-> "", ret |-> 0, refund |-> 0,
                            left |-> res.market, pre |-> res.market,
                            pre_vault |-> 0, at |-> 0, prev |-> NoBuy]
    /\ now = 0
    /\ vault = 0
    /\ MAX_WITHDRAW_BPS \in MaxWithdrawBpsChoices
    /\ ops = 0

\* Market::set_invariant_u256 called with a value
SetInvariant ==
    /\ ops < MaxOps
    /\ \E v \in InvariantValues :
          LET res == Ok(0, set_invariant_u256(market, v))
          IN  /\ last' = Call("set_invariant_u256", 0, v, vault, TRUE, res, NONE)
              /\ market' = res.market
    /\ ops' = ops + 1
    /\ UNCHANGED <<now, vault, MAX_WITHDRAW_BPS>>

\* Market::recompute_invariant called on the record
RecomputeInvariant ==
    /\ ops < MaxOps
    /\ LET res == recompute_invariant(market)
       IN  /\ last' = Call("recompute_invariant", 0, 0, vault, TRUE, res, NONE)
           /\ market' = res.market
    /\ ops' = ops + 1
    /\ UNCHANGED <<now, vault, MAX_WITHDRAW_BPS>>

\* Market::required_delta called with an outcome index
RequiredDelta ==
    /\ ops < MaxOps
    /\ \E idx \in RecordIndices :
          LET res == required_delta(market, idx)
          IN  last' = Call("required_delta", idx, 0, vault, TRUE, res, NONE)
    /\ ops' = ops + 1
    /\ UNCHANGED <<market, now, vault, MAX_WITHDRAW_BPS>>

\* Market::liquidity_percentages called on the record
LiquidityPercentages ==
    /\ ops < MaxOps
    /\ LET res == liquidity_percentages(market)
       IN  last' = Call("liquidity_percentages", 0, 0, vault, TRUE, res, NONE)
    /\ ops' = ops + 1
    /\ UNCHANGED <<market, now, vault, MAX_WITHDRAW_BPS>>

NextRecord ==
    SetInvariant \/ RecomputeInvariant \/ RequiredDelta \/ LiquidityPercentages

SpecRecord == InitRecord /\ [][NextRecord]_vars

\* ------------------------------------------------------------------------
\* Properties
\* ------------------------------------------------------------------------

IsBuy == last.op = "buy"

IsSell == last.op \in {"sell", "sell_outcome"}

IsTrade == IsBuy \/ IsSell

\* the product of reserves[0..k) as a mathematical integer
RECURSIVE ExactProduct(_, _)
ExactProduct(reserves, k) ==
    IF k = 0 THEN 1 ELSE ExactProduct(reserves, k - 1) * reserves[k - 1]

\* the outcome index of the last call is one of the market's active outcomes
LastIdxActive == last.idx < last.pre.num_outcomes

C4_SellAfterDeadlineRejected ==
    (IsSell /\ last.at >= last.pre.resolve_at) =>
        /\ ~last.ok
        /\ market = last.pre

\* C5: the slots at num_outcomes and above hold zero reserves and supplies; a
\* buy or sell with an outcome index >= num_outcomes is rejected and touches
\* nothing, with an index error when it passes the checks made before the
\* index is looked at (deadline and amount)
IndexErrors == {"InvalidOutcomeIndex", "OutcomeBelowZero"}

C7_ValidSellSucceeds ==
    (/\ IsSell /\ LastIdxActive /\ last.funds
     /\ last.amount > 0
     /\ last.amount <= last.pre.supplies[last.idx]
     /\ last.at < last.pre.resolve_at
     /\ last.custody >= RefundFor(last.pre.supplies[last.idx], last.amount)) =>
        /\ last.ok
        /\ market.supplies[last.idx] = last.pre.supplies[last.idx] - last.amount

\* C8: a sell whose computed gross refund is positive and above the custody
\* balance is rejected with InsufficientVaultFunds and changes nothing; a sell
\* whose gross refund is within the custody balance is not rejected for
\* insufficient custody
C8_CustodyCheck ==
    /\ (IsSell /\ last.refund > 0 /\ last.refund > last.custody) =>
          /\ ~last.ok
          /\ last.err = "InsufficientVaultFunds"
          /\ market = last.pre
          /\ last.left = last.pre
    /\ (IsSell /\ last.refund >= 0 /\ last.refund <= last.custody) =>
          last.err # "InsufficientVaultFunds"

\* a sell refused for a custody balance one refund short, on a market whose
\* reserve would cover the refund
C8_Witness ==
    /\ last.op = "sell_outcome"
    /\ last.refund > 0 /\ last.refund > last.custody
    /\ last.refund <= last.pre.reserves[last.idx]
    /\ last.err = "InsufficientVaultFunds"

\* C9: when the refund computed for a sell is zero the sell succeeds with a
\* payout of 0: supplies[idx] goes down by burn_amount, reserves and
\* undistributed_fees stay, the invariant is the product of the reserves,
\* whatever the custody balance
C9_ZeroRefundSell ==
    (IsSell /\ last.refund = 0) =>
        /\ last.ok
        /\ last.ret = 0
        /\ market.supplies =
              [last.pre.supplies EXCEPT ![last.idx] = @ - last.amount]
        /\ market.reserves = last.pre.reserves
        /\ market.undistributed_fees = last.pre.undistributed_fees
        /\ invariant_u256(market) = ExactProduct(market.reserves, market.num_outcomes)
        /\ vault = last.pre_vault

\* a zero-refund sell of a positive amount against an empty custody balance
C9_Witness ==
    /\ last.op = "sell_outcome" /\ last.refund = 0
    /\ last.amount > 0 /\ last.custody = 0 /\ last.pre_vault > 0
    /\ last.ok
    /\ market.supplies[last.idx] < last.pre.supplies[last.idx]

\* C10: a successful sell with a positive gross refund R returns R - fee with
\* fee = floor(R * FEE_BPS / 10000), adds fee to undistributed_fees, takes R
\* from reserves[idx] and burn_amount from supplies[idx]
C10_FeeAccounting ==
    (IsSell /\ last.ok /\ last.refund > 0) =>
        LET fee == (last.refund * FEE_BPS) \div 10000
        IN  /\ last.ret = last.refund - fee
            /\ market.undistributed_fees = last.pre.undistributed_fees + fee
            /\ market.reserves[last.idx] = last.pre.reserves[last.idx] - last.refund
            /\ market.supplies[last.idx] = last.pre.supplies[last.idx] - last.amount
            /\ last.ret + (market.undistributed_fees - last.pre.undistributed_fees)
                  = last.pre.reserves[last.idx] - market.reserves[last.idx]

\* the call before the last one was a successful buy on the same outcome, and
\* the last call burns exactly what that buy minted
BurnsWhatWasMinted ==
    /\ last.prev.buy
    /\ last.prev.idx = last.idx
    /\ last.amount = last.prev.ret

FeeRates == {0, 100, 150, 5000, 10000}

\* the net payout of a gross refund at a fee rate (market.rs 278-285)
NetPayoutAt(refund_u64, fee_bps) ==
    CheckedSubU64(refund_u64, FeeAt(refund_u64, fee_bps))

\* the sells the fee applies to: successful, with a positive gross refund
PaysGrossRefund == IsSell /\ last.ok /\ last.refund > 0

\* C12 as stated: for the gross refund of a sell the net payout strictly
\* decreases as the fee rate increases
C12_PayoutStrictlyDecreases ==
    PaysGrossRefund =>
        \A b1, b2 \in FeeRates :
            b1 < b2 => NetPayoutAt(last.refund, b2) < NetPayoutAt(last.refund, b1)

\* C12, amended: the sell returns the net payout at FEE_BPS; the net payout
\* never increases as the fee rate increases, and it strictly decreases when
\* refund * (b2 - b1) >= 10000
C12_PayoutNonIncreasing ==
    PaysGrossRefund =>
        /\ last.ret = NetPayoutAt(last.refund, FEE_BPS)
        /\ \A b1, b2 \in FeeRates :
              b1 < b2 =>
                  /\ NetPayoutAt(last.refund, b2) <= NetPayoutAt(last.refund, b1)
                  /\ (last.refund * (b2 - b1) >= 10000) =>
                        NetPayoutAt(last.refund, b2) < NetPayoutAt(last.refund, b1)

\* a sell whose gross refund pays the same at two different fee rates and
\* less at a third
C12_Witness ==
    /\ PaysGrossRefund
    /\ last.ret < last.refund
    /\ NetPayoutAt(last.refund, 150) = NetPayoutAt(last.refund, 100)
    /\ NetPayoutAt(last.refund, 5000) < NetPayoutAt(last.refund, 150)

\* C13: a successful buy or sell on outcome idx leaves the reserves and
\* supplies of every other slot, scale, num_outcomes and resolve_at as they
\* were; a buy also leaves undistributed_fees as it was
C13_TradeFrame ==
    (IsTrade /\ last.ok) =>
        /\ \A j \in Slots :
              j # last.idx =>
                  /\ market.reserves[j] = last.pre.reserves[j]
                  /\ market.supplies[j] = last.pre.supplies[j]
        /\ market.scale = last.pre.scale
        /\ market.num_outcomes = last.pre.num_outcomes
        /\ market.resolve_at = last.pre.resolve_at
        /\ IsBuy => market.undistributed_fees = last.pre.undistributed_fees

\* a sell that takes a refund and a fee from one outcome while the other
\* outcome holds a reserve
C13_Witness ==
    /\ last.op = "sell_outcome" /\ last.ok /\ last.refund > 0
    /\ market.num_outcomes > 1
    /\ market.reserves[last.idx] < last.pre.reserves[last.idx]
    /\ market.undistributed_fees > last.pre.undistributed_fees
    /\ \E j \in Slots : j # last.idx /\ market.reserves[j] > 0

\* the value Market::outcome_price returns for an active outcome
PriceOf(m, i) == outcome_price(m, i).ret

\* the active outcomes other than the one the last call traded
OtherActive == {j \in Slots : j < last.pre.num_outcomes /\ j # last.idx}

\* C14: after a successful buy on outcome i, outcome_price(i) is strictly
\* greater than before and outcome_price(j) is as before for every other
\* active outcome j
C14_BuyRaisesOwnPriceOnly ==
    (IsBuy /\ last.ok) =>
        /\ PriceOf(market, last.idx) > PriceOf(last.pre, last.idx)
        /\ \A j \in OtherActive : PriceOf(market, j) = PriceOf(last.pre, j)

\* C15: a successful sell on outcome i leaves outcome_price(j) as before for
\* every other active outcome j
C15_SellKeepsOtherPrices ==
    (IsSell /\ last.ok) =>
        \A j \in OtherActive : PriceOf(market, j) = PriceOf(last.pre, j)

\* C16: outcome_price(i) is 0 for every active outcome i whose supply is 0
C16_ZeroSupplyZeroPrice ==
    \A i \in Slots :
        (i < market.num_outcomes /\ market.supplies[i] = 0) =>
            /\ outcome_price(market, i).ok
            /\ PriceOf(market, i) = 0

\* the market is as init_market leaves it: no reserve, no supply, invariant 0
FreshlyInitialized(m) ==
    /\ \A k \in Slots : m.reserves[k] = 0 /\ m.supplies[k] = 0
    /\ invariant_u256(m) = 0

\* C17: the first buy of amount_in > 0 on outcome i of a freshly initialized
\* market mints exactly amount_in, sets reserves[i] = scale + amount_in and
\* reserves[j] = scale for every other active outcome j
C17_FirstBuyBootstrap ==
    (IsBuy /\ last.ok /\ FreshlyInitialized(last.pre)) =>
        /\ last.ret = last.amount
        /\ market.reserves[last.idx] = last.pre.scale + last.amount
        /\ \A j \in OtherActive : market.reserves[j] = last.pre.scale

\* a buy that passes the checks buy.rs makes before it calls buy_outcome
BuyReachesEngine ==
    /\ IsBuy /\ LastIdxActive /\ last.amount > 0
    /\ last.at < last.pre.resolve_at

\* C18: every reserve and supply stays within 0..U64Max; a buy that would
\* take reserves[idx] or supplies[idx] above U64Max is rejected with
\* MathOverflow, and a sell whose refund exceeds reserves[idx] is rejected,
\* leaving reserves and supplies as they were
C18_NoWraparound ==
    /\ \A k \in Slots :
          /\ market.reserves[k] \in 0 .. U64Max
          /\ market.supplies[k] \in 0 .. U64Max
    /\ (BuyReachesEngine
          /\ last.pre.reserves[last.idx] + last.amount > U64Max) =>
          /\ ~last.ok /\ last.err = "MathOverflow"
          /\ market = last.pre
    /\ (BuyReachesEngine
          /\ last.pre.reserves[last.idx] + last.amount <= U64Max
          /\ last.pre.supplies[last.idx]
                + MintedFor(last.pre.supplies[last.idx], last.amount) > U64Max) =>
          /\ ~last.ok /\ last.err = "MathOverflow"
          /\ market = last.pre
    /\ (IsSell /\ last.refund > last.pre.reserves[last.idx]) =>
          /\ ~last.ok
          /\ market.reserves = last.pre.reserves
          /\ market.supplies = last.pre.supplies
          /\ vault = last.pre_vault

\* a sell whose refund is covered by the custody balance and exceeds the
\* reserve of its outcome
C18_Witness ==
    /\ IsSell /\ last.refund > last.pre.reserves[last.idx]
    /\ last.pre.reserves[last.idx] > 0
    /\ last.custody >= last.refund
    /\ last.err = "MathOverflow"

\* the outcome counts passed to init_market, one of them above MAX_OUTCOMES
InitOutcomeCounts == 0 .. (MAX_OUTCOMES + 1)

\* C19: init_market(num_outcomes, scale, resolve_at) with num_outcomes <=
\* MAX_OUTCOMES stores its three arguments, leaves reserves and supplies zero
\* and stores the invariant 0; with num_outcomes > MAX_OUTCOMES it is
\* rejected with TooManyOutcomes
C19_InitializeZeroed ==
    /\ \A n \in InitOutcomeCounts, sc \in Scales, ra \in ResolveAts :
          LET res == init_market(n, sc, ra)
          IN  IF n <= MAX_OUTCOMES
              THEN /\ res.ok
                   /\ res.market.num_outcomes = n
                   /\ res.market.scale = sc
                   /\ res.market.resolve_at = ra
                   /\ FreshlyInitialized(res.market)
              ELSE ~res.ok /\ res.err = "TooManyOutcomes"
    /\ (last.op = "init_market") => FreshlyInitialized(market)

\* C20: a successful buy adds amount_in to reserves[idx] and the returned
\* minted amount to supplies[idx], the minted amount is
\* floor(sqrt(s0^2 + 2 * amount_in) - s0) for the supply s0 before the buy,
\* and no reserve or supply goes down
C20_BuyEffect ==
    (IsBuy /\ last.ok) =>
        LET s0 == last.pre.supplies[last.idx]
        IN  /\ market.reserves[last.idx] = last.pre.reserves[last.idx] + last.amount
            /\ market.supplies[last.idx] = s0 + last.ret
            /\ last.ret = ISqrt(s0 * s0 + 2 * last.amount) - s0
            /\ \A k \in Slots :
                  /\ market.reserves[k] >= last.pre.reserves[k]
                  /\ market.supplies[k] >= last.pre.supplies[k]

LastFee == IF last.refund > 0 THEN FeeFor(last.refund) ELSE 0

\* C25: undistributed_fees never decreases, changes only on a successful sell
\* with a positive fee, and grows on every successful sell by the fee of that
\* sell (so that it is the sum of the fees of the successful sells so far)
C25_FeesAccumulate ==
    /\ market.undistributed_fees >= last.pre.undistributed_fees
    /\ (market.undistributed_fees # last.pre.undistributed_fees) =>
          IsSell /\ last.ok /\ LastFee > 0
    /\ (IsSell /\ last.ok) =>
          market.undistributed_fees = last.pre.undistributed_fees + LastFee

C28_CustodyConserved ==
    vault - (TotalUpTo(market.reserves, market.num_outcomes)
                + market.undistributed_fees) = 0

\* the total of the active reserves of the market before the last call
LastTotal == TotalUpTo(last.pre.reserves, last.pre.num_outcomes)

\* the sum of the entries of a vector over the slots
RECURSIVE SumUpTo(_, _)
SumUpTo(vec, k) == IF k = 0 THEN 0 ELSE SumUpTo(vec, k - 1) + vec[k - 1]

\* C22: liquidity_percentages returns floor(reserves[i] * D9 / total of the
\* active reserves) for every active outcome, 0 for every other slot, and all
\* zeros when the total is 0; every entry is at most D9, the entries sum to at
\* most D9, and no share is above U64Max (the clamp is not taken)
C22_LiquidityPercentages ==
    (last.op = "liquidity_percentages") =>
        /\ last.ok
        /\ market = last.pre
        /\ \A i \in Slots :
              /\ (i < last.pre.num_outcomes /\ LastTotal > 0) =>
                    /\ last.ret[i] = (last.pre.reserves[i] * D9) \div LastTotal
                    /\ (last.pre.reserves[i] * D9) \div LastTotal <= U64Max
              /\ (i >= last.pre.num_outcomes \/ LastTotal = 0) => last.ret[i] = 0
              /\ last.ret[i] <= D9
        /\ SumUpTo(last.ret, MAX_OUTCOMES) <= D9

\* the shares of a full market whose floors lose a part of the whole
C22_Witness ==
    /\ last.op = "liquidity_percentages"
    /\ last.pre.num_outcomes = MAX_OUTCOMES
    /\ \A i \in Slots : last.pre.reserves[i] > 0
    /\ \E i \in Slots : last.ret[i] > 0
    /\ SumUpTo(last.ret, MAX_OUTCOMES) < D9

\* the product of reserves[0..k) without reserves[idx], as an integer
RECURSIVE ExactProductExcept(_, _, _)
ExactProductExcept(reserves, k, idx) ==
    IF k = 0 THEN 1
    ELSE IF k - 1 = idx THEN ExactProductExcept(reserves, k - 1, idx)
    ELSE ExactProductExcept(reserves, k - 1, idx) * reserves[k - 1]

\* the reserve the invariant asks of outcome idx: invariant / product of the
\* other active reserves, 0 when that product is 0
QuotientFor(m, idx) ==
    LET pe == ExactProductExcept(m.reserves, m.num_outcomes, idx)
    IN  IF pe = 0 THEN 0 ELSE invariant_u256(m) \div pe

\* C23: for a valid idx required_delta returns max(0, q - reserves[idx])
\* clamped to U64Max, q being invariant / product_except(idx) and 0 when
\* product_except(idx) is 0; for idx >= num_outcomes it returns an index error
C23_RequiredDelta ==
    (last.op = "required_delta") =>
        /\ market = last.pre
        /\ IF last.idx < last.pre.num_outcomes
           THEN LET q == QuotientFor(last.pre, last.idx)
                    d == q - last.pre.reserves[last.idx]
                IN  /\ last.ok
                    /\ last.ret = IF d <= 0 THEN 0
                                  ELSE IF d > U64Max THEN U64Max ELSE d
           ELSE ~last.ok /\ last.err = "InvalidOutcomeIndex"

\* a required_delta that is clamped, on a full market whose other reserves
\* have a product above 1
C23_Witness ==
    /\ last.op = "required_delta" /\ last.ok
    /\ last.pre.num_outcomes = MAX_OUTCOMES
    /\ ExactProductExcept(last.pre.reserves, last.pre.num_outcomes, last.idx) > 1
    /\ QuotientFor(last.pre, last.idx) - last.pre.reserves[last.idx] > U64Max
    /\ last.ret = U64Max

\* the value of a byte string read most significant byte first
RECURSIVE BigEndianValue(_, _)
BigEndianValue(buf, k) ==
    IF k = 0 THEN 0 ELSE BigEndianValue(buf, k - 1) * 256 + buf[k]

\* C24: after set_invariant_u256(v) the invariant reads back as v, the stored
\* field is the InvBytes-byte big-endian encoding of v, nothing else in the
\* record changes, and a different value gives a different field
C24_InvariantCodec ==
    (last.op = "set_invariant_u256") =>
        /\ invariant_u256(market) = last.amount
        /\ DOMAIN market.invariant = 1 .. InvBytes
        /\ \A i \in 1 .. InvBytes : market.invariant[i] \in 0 .. 255
        /\ BigEndianValue(market.invariant, InvBytes) = last.amount
        /\ market.invariant[InvBytes] = last.amount % 256
        /\ market = [last.pre EXCEPT !.invariant = market.invariant]
        /\ \A v \in InvariantValues :
              (set_invariant_u256(last.pre, v).invariant = market.invariant)
                 <=> (v = last.amount)

\* a value whose bytes differ from one another, stored over another invariant
C24_Witness ==
    /\ last.op = "set_invariant_u256"
    /\ last.amount = 258
    /\ market.invariant = <<0, 0, 1, 2>>
    /\ invariant_u256(last.pre) > 0
    /\ invariant_u256(last.pre) # last.amount

\* the product of the positive numbers reserves[0..k) is above bound
RECURSIVE Exceeds(_, _, _)
Exceeds(reserves, k, bound) ==
    IF k = 0 THEN 1 > bound
    ELSE Exceeds(reserves, k - 1, bound \div reserves[k - 1])

\* the product of the active reserves of a record does not fit in a U256
ProductOverflows(m) ==
    /\ \A i \in Slots : i < m.num_outcomes => m.reserves[i] > 0
    /\ Exceeds(m.reserves, m.num_outcomes, U256Max)

\* C26: recompute_invariant returns MathOverflow whenever the product of the
\* active reserves does not fit in a U256, a call that fails leaves the record
\* and its invariant bytes as they were, and a call that succeeds stores the
\* exact product, never a wrapped one
C26_RecomputeOverflow ==
    (last.op = "recompute_invariant") =>
        /\ ProductOverflows(last.pre) => (~last.ok /\ last.err = "MathOverflow")
        /\ ~last.ok => (market = last.pre /\ market.invariant = last.pre.invariant)
        /\ last.ok =>
              /\ ~ProductOverflows(last.pre)
              /\ invariant_u256(market) =
                    ExactProduct(last.pre.reserves, last.pre.num_outcomes)
              /\ last.ret = invariant_u256(market)

\* recompute_invariant failing on a product that does not fit, after
\* set_invariant_u256 stored a value
C26_Witness ==
    /\ last.op = "recompute_invariant" /\ ~last.ok
    /\ last.err = "MathOverflow"
    /\ ProductOverflows(last.pre)
    /\ last.pre.invariant = <<0, 0, 1, 2>>
    /\ market.invariant = <<0, 0, 1, 2>>

====
